---------------------------- MODULE Spec2Model ----------------------------
(***************************************************************************)
(* Model of sokutei: the benchmark runner (main.go), the Windows process   *)
(* timer (measure_windows.go) and the statistics helpers (util).           *)
(*                                                                         *)
(* Three specifications share one set of variables:                        *)
(*   Spec      main's batch loop, runBenchmark and windowsTimer.Run        *)
(*   SpecFold  the running-mean update of runBenchmark folded over a       *)
(*             sample sequence, against the final mean                     *)
(*   SpecUnit  getMeasurementMetrics applied to pairs of durations         *)
(***************************************************************************)
EXTENDS Integers, Sequences, FiniteSets, TLC

(***************************************************************************)
(* Bounds of the model.                                                    *)
(***************************************************************************)
MaxRuns == 2
MaxWarmup == 1
MaxSample == 2
FoldRuns == 5
FoldSample == 4
MaxMult == 2
MaxDelta == 1

(***************************************************************************)
(* Inputs of the batch: the command strings of flag.Args(), and the        *)
(* accounting values a job object may report (100 ns ticks).               *)
(***************************************************************************)
Cmds == << "cmdA", "cmdB" >>
NumCmds == Len(Cmds)
AccountingInfos == { [TotalUserTime |-> 0, TotalKernelTime |-> 0],
                     [TotalUserTime |-> 2, TotalKernelTime |-> 1] }

HundredNSTicks == 100
NanosPerSecond == 1000000000

Nil == "nil"

(***************************************************************************)
(* Go integer arithmetic.  Quotients truncate toward zero.                 *)
(***************************************************************************)
Abs(x) == IF x < 0 THEN -x ELSE x

TruncDiv(a, b) ==
    LET q == Abs(a) \div Abs(b)
    IN  IF (a < 0) = (b < 0) THEN q ELSE -q

RECURSIVE SumSeq(_)
SumSeq(s) == IF s = << >> THEN 0 ELSE Head(s) + SumSeq(Tail(s))

(***************************************************************************)
(* int64 durations past 2^31 ns: a duration is s * 10^9 + ns nanoseconds   *)
(* with 0 <= ns < 10^9 (s is negative for a negative duration).            *)
(***************************************************************************)
Dur(s, ns) == [s |-> s + (ns \div NanosPerSecond), ns |-> ns % NanosPerSecond]
ZeroDur == Dur(0, 0)
DurLeq(a, b) == a.s < b.s \/ (a.s = b.s /\ a.ns <= b.ns)
DurLess(a, b) == DurLeq(a, b) /\ a # b
DurScale(d, k) == Dur(k * d.s, k * d.ns)
DurAdd(d, n) == Dur(d.s, d.ns + n)

Hour == Dur(3600, 0)
Minute == Dur(60, 0)
Second == Dur(1, 0)
Millisecond == Dur(0, 1000000)
Microsecond == Dur(0, 1000)
Nanosecond == Dur(0, 1)

denominators == << Hour, Minute, Second, Millisecond, Microsecond, Nanosecond >>
units == << "h", "m", "s", "ms", "us", "ns" >>

\* Operands of the division swapped: denominator / timing > 0.
QuotientPositive_Swapped(timing, denominator) ==
    DurLess(ZeroDur, timing) /\ DurLeq(timing, denominator)

\* timing / int64(denominator) > 0.  Every denominator is positive, so the
\* truncating quotient is positive exactly when timing >= denominator.
QuotientPositive(timing, denominator) ==
    DurLeq(denominator, timing)

\* The range loop with its early return; (0, "") when no tier matches.
getMeasurementMetrics(timing) ==
    LET hits == { i \in 1..Len(denominators) :
                     QuotientPositive(timing, denominators[i]) }
    IN  IF hits = {}
        THEN [denominator |-> ZeroDur, unit |-> ""]
        ELSE LET i == CHOOSE k \in hits : \A j \in hits : k <= j
             IN  [denominator |-> denominators[i], unit |-> units[i]]

(***************************************************************************)
(* stdev: sqrt(float64(numerator) / float64(len(values)-1)).  The float    *)
(* result is kept as the quotient under the root; 0/0 is NaN, x/0 is +Inf. *)
(***************************************************************************)
RECURSIVE SquaredDeltas(_, _)
SquaredDeltas(values, mean) ==
    IF values = << >> THEN 0
    ELSE (Head(values) - mean) * (Head(values) - mean)
            + SquaredDeltas(Tail(values), mean)

stdev(values, mean) ==
    LET numerator == SquaredDeltas(values, mean)
        n1 == Len(values) - 1
    IN  IF n1 = 0
        THEN IF numerator = 0 THEN [kind |-> "NaN"] ELSE [kind |-> "Inf"]
        ELSE [kind |-> "sqrt", num |-> numerator, den |-> n1]

Unset == [kind |-> "unset"]


(***************************************************************************)
(* State.                                                                  *)
(*   runs, warmup          the -runs and -warmup flags                     *)
(*   mpc, cmdIdx, results  main: position, loop index, results slice       *)
(*   printed               main's output per command (ghost)               *)
(*   bpc, i, currentEstimate, totalUserTime, totalKernelTime, elapsedRuns, *)
(*   progress, ret         runBenchmark: position, locals, the arguments   *)
(*                         of the last printProgressLine, return values    *)
(*   w, tpc, terr          windowsTimer fields, Run's position and return  *)
(*   child, job, inJob, hProcess, hThread                                  *)
(*                         the child process and the handles of one Run    *)
(*   exitStatus, execs, failedExec, measured                               *)
(*                         ghosts: the last child's exit status, launches  *)
(*                         per                                             *)
(*                         command, commands with a failed execution, the  *)
(*                         real times of the successful measured runs      *)
(*   foldSamples, foldMean, foldResult     SpecFold                        *)
(*   unitIn, unitOut                       SpecUnit                        *)
(***************************************************************************)
VARIABLES runs, warmup,
          mpc, cmdIdx, results, printed,
          bpc, i, currentEstimate, totalUserTime, totalKernelTime,
          elapsedRuns, progress, ret,
          w, tpc, terr, child, job, inJob, hProcess, hThread,
          exitStatus, execs, failedExec, measured,
          foldSamples, foldMean, foldResult,
          unitIn, unitOut

configVars == << runs, warmup >>
mainVars == << mpc, cmdIdx, results, printed >>
benchVars == << bpc, i, currentEstimate, totalUserTime, totalKernelTime,
                elapsedRuns, progress, ret >>
timerVars == << w, tpc, terr, child, job, inJob, hProcess, hThread >>
ghostVars == << exitStatus, execs, failedExec, measured >>
foldVars == << foldSamples, foldMean, foldResult >>
unitVars == << unitIn, unitOut >>
vars == << configVars, mainVars, benchVars, timerVars, ghostVars,
           foldVars, unitVars >>

NoResult == [kind |-> "none"]
NoProgress == [kind |-> "none"]
ZeroTimer == [userTime |-> 0, kernelTime |-> 0, realTime |-> 0]

InitMain ==
    /\ mpc = "loop" /\ cmdIdx = 1 /\ results = << >>
    /\ printed = [c \in 1..NumCmds |-> "pending"]
InitBench ==
    /\ bpc = "idle" /\ i = 0 /\ currentEstimate = 0
    /\ totalUserTime = 0 /\ totalKernelTime = 0
    /\ elapsedRuns = << >> /\ progress = NoProgress
    /\ ret = [result |-> NoResult, err |-> Nil]
InitTimer ==
    /\ w = ZeroTimer /\ tpc = "idle" /\ terr = Nil
    /\ child = "none" /\ job = "none" /\ inJob = FALSE
    /\ hProcess = "none" /\ hThread = "none"
InitGhost ==
    /\ exitStatus = "none"
    /\ execs = [c \in 1..NumCmds |-> 0]
    /\ failedExec = [c \in 1..NumCmds |-> FALSE]
    /\ measured = << >>
InitFoldIdle == foldSamples = << >> /\ foldMean = 0 /\ foldResult = << >>
InitUnitIdle == unitIn = << >> /\ unitOut = << >>

(***************************************************************************)
(* windowsTimer.                                                           *)
(***************************************************************************)
GetUserTime == w.userTime * HundredNSTicks
GetKernelTime == w.kernelTime * HundredNSTicks
GetRealTime == w.realTime

\* TerminateJobObject kills the processes assigned to the job; when it
\* fails the function returns before CloseHandle.
terminateJobObject(terminateOk, c, inJ) ==
    IF ~terminateOk
    THEN [job |-> "open", child |-> c]
    ELSE [job |-> "closed",
          child |-> IF inJ /\ c \in {"suspended", "running"}
                    THEN "terminated" ELSE c]

\* A return of Run with error value err: the deferred calls run in reverse
\* order, CloseHandle(hProcess) of line 72 (the thread handle) and then
\* terminateJobObject(job) of line 58, each only if already registered.
RunReturns(err, c, deferThread, deferJob) ==
    /\ tpc' = "returned"
    /\ terr' = err
    /\ hThread' = IF deferThread THEN "closed" ELSE hThread
    /\ IF deferJob
       THEN \E terminateOk \in BOOLEAN :
               LET t == terminateJobObject(terminateOk, c, inJob)
               IN  job' = t.job /\ child' = t.child
       ELSE job' = job /\ child' = c

\* cmd.Start() with CREATE_SUSPENDED (lines 43-52).
T_Start ==
    /\ tpc = "start"
    /\ execs' = [execs EXCEPT ![cmdIdx] = @ + 1]
    /\ \E ok \in BOOLEAN :
          IF ok
          THEN /\ tpc' = "createJob" /\ child' = "suspended"
               /\ UNCHANGED << terr, job, hThread, failedExec >>
          ELSE /\ RunReturns("StartErr", "none", FALSE, FALSE)
               /\ failedExec' = [failedExec EXCEPT ![cmdIdx] = TRUE]
    /\ UNCHANGED << w, inJob, hProcess, exitStatus, measured >>
    /\ UNCHANGED << configVars, mainVars, benchVars, foldVars, unitVars >>

\* windows.CreateJobObject and the defer of terminateJobObject (54-58).
T_CreateJobObject ==
    /\ tpc = "createJob"
    /\ \E ok \in BOOLEAN :
          IF ok
          THEN /\ tpc' = "openProcess" /\ job' = "open"
               /\ UNCHANGED << terr, child, hThread, failedExec >>
          ELSE /\ RunReturns("CreateJobErr", child, FALSE, FALSE)
               /\ failedExec' = [failedExec EXCEPT ![cmdIdx] = TRUE]
    /\ UNCHANGED << w, inJob, hProcess, exitStatus, execs, measured >>
    /\ UNCHANGED << configVars, mainVars, benchVars, foldVars, unitVars >>

\* windows.OpenProcess (60-63).
T_OpenProcess ==
    /\ tpc = "openProcess"
    /\ \E ok \in BOOLEAN :
          IF ok
          THEN /\ tpc' = "assign" /\ hProcess' = "open"
               /\ UNCHANGED << terr, child, job, hThread, failedExec >>
          ELSE /\ RunReturns("OpenProcessErr", child, FALSE, TRUE)
               /\ failedExec' = [failedExec EXCEPT ![cmdIdx] = TRUE]
               /\ UNCHANGED hProcess
    /\ UNCHANGED << w, inJob, exitStatus, execs, measured >>
    /\ UNCHANGED << configVars, mainVars, benchVars, foldVars, unitVars >>

\* windows.AssignProcessToJobObject, then CloseHandle(hProcess) (64-67).
T_AssignProcessToJobObject ==
    /\ tpc = "assign"
    /\ \E ok \in BOOLEAN :
          IF ok
          THEN /\ tpc' = "getThread" /\ inJob' = TRUE /\ hProcess' = "closed"
               /\ UNCHANGED << terr, child, job, hThread, failedExec >>
          ELSE /\ RunReturns("AssignErr", child, FALSE, TRUE)
               /\ failedExec' = [failedExec EXCEPT ![cmdIdx] = TRUE]
               /\ UNCHANGED << inJob, hProcess >>
    /\ UNCHANGED << w, exitStatus, execs, measured >>
    /\ UNCHANGED << configVars, mainVars, benchVars, foldVars, unitVars >>

\* The outcomes of getMainThreadOfPID (103-127): the snapshot cannot be
\* taken, no thread of the process is listed (Thread32Next ends the loop
\* with its error), OpenThread fails, or the thread handle is returned.
ThreadLookups == { "ok", "snapshotErr", "noThread", "openThreadErr" }

\* getMainThreadOfPID and the defer of CloseHandle (69-72).
T_getMainThreadOfPID ==
    /\ tpc = "getThread"
    /\ \E lookup \in ThreadLookups :
          IF lookup = "ok"
          THEN /\ tpc' = "resume" /\ hThread' = "open"
               /\ UNCHANGED << terr, child, job, failedExec >>
          ELSE /\ RunReturns(lookup, child, FALSE, TRUE)
               /\ failedExec' = [failedExec EXCEPT ![cmdIdx] = TRUE]
    /\ UNCHANGED << w, inJob, hProcess, exitStatus, execs, measured >>
    /\ UNCHANGED << configVars, mainVars, benchVars, foldVars, unitVars >>

\* time.Now() and windows.ResumeThread (74-75).
T_ResumeThread ==
    /\ tpc = "resume"
    /\ tpc' = "wait" /\ child' = "running"
    /\ UNCHANGED << w, terr, job, inJob, hProcess, hThread >>
    /\ UNCHANGED << configVars, mainVars, benchVars, ghostVars,
                    foldVars, unitVars >>

\* What cmd.Wait() reports: exit status 0 (nil), a non-zero exit status
\* (*exec.ExitError), or a failure of the wait itself.
WaitOutcomes == { "exit0", "exitNonZero", "waitErr" }

\* The error value of cmd.Wait() / cmd.Run() for an outcome.
WaitError(outcome) ==
    CASE outcome = "exit0" -> Nil
      [] outcome = "exitNonZero" -> "ExitError"
      [] OTHER -> "WaitErr"

\* cmd.Wait() and w.realTime = time.Since(startTime) (76-79).
T_Wait ==
    /\ tpc = "wait"
    /\ \E outcome \in WaitOutcomes, rt \in 0..MaxSample :
          LET c == IF outcome = "waitErr" THEN child ELSE "exited"
              status == CASE outcome = "exit0" -> "zero"
                          [] outcome = "exitNonZero" -> "nonzero"
                          [] OTHER -> "none"
          IN  /\ exitStatus' = status
              /\ IF WaitError(outcome) # Nil
                 THEN /\ RunReturns(WaitError(outcome), c, TRUE, TRUE)
                      /\ failedExec' = [failedExec EXCEPT ![cmdIdx] = TRUE]
                      /\ UNCHANGED << w, measured >>
                 ELSE /\ tpc' = "query" /\ child' = c
                      /\ w' = [w EXCEPT !.realTime = rt]
                      /\ measured' = Append(measured, rt)
                      /\ UNCHANGED << terr, job, hThread, failedExec >>
    /\ UNCHANGED << inJob, hProcess, execs >>
    /\ UNCHANGED << configVars, mainVars, benchVars, foldVars, unitVars >>

\* queryBasicJobBasicAccountingInfo and the return nil (81-88).
T_Query ==
    /\ tpc = "query"
    /\ \E ok \in BOOLEAN, info \in AccountingInfos :
          IF ok
          THEN /\ w' = [w EXCEPT !.userTime = info.TotalUserTime,
                                 !.kernelTime = info.TotalKernelTime]
               /\ RunReturns(Nil, child, TRUE, TRUE)
               /\ UNCHANGED failedExec
          ELSE /\ RunReturns("QueryErr", child, TRUE, TRUE)
               /\ failedExec' = [failedExec EXCEPT ![cmdIdx] = TRUE]
               /\ UNCHANGED w
    /\ UNCHANGED << inJob, hProcess, exitStatus, execs, measured >>
    /\ UNCHANGED << configVars, mainVars, benchVars, foldVars, unitVars >>

TimerNext ==
    \/ T_Start
    \/ T_CreateJobObject
    \/ T_OpenProcess
    \/ T_AssignProcessToJobObject
    \/ T_getMainThreadOfPID
    \/ T_ResumeThread
    \/ T_Wait
    \/ T_Query

(***************************************************************************)
(* runBenchmark.                                                           *)
(***************************************************************************)
\* What cmd.Run() of a warmup execution reports: Start fails, or Wait's
\* outcomes.
WarmupOutcomes == { "startErr" } \cup WaitOutcomes

WarmupError(outcome) ==
    IF outcome = "startErr" THEN "StartErr" ELSE WaitError(outcome)

\* The error of an execution is ignored and the loop goes on.
Aborts_Never(err) == FALSE

\* if err != nil { return nil, err } (81-83 and 97-99).
Aborts(err) == err # Nil

\* The previous mean is weighted by the one-based count.
UpdateRunningMean_OneBased(previousMean, previousCount, newSample) ==
    TruncDiv(previousMean * (previousCount + 1) + newSample,
             previousCount + 1)

\* The running mean of line 105, i being the zero-based loop index.
UpdateRunningMean(previousMean, previousCount, newSample) ==
    TruncDiv(previousMean * previousCount + newSample, previousCount + 1)

\* etaEstimate of line 107, i being the zero-based loop index.
EtaEstimate(estimate, idx) == estimate * (runs - idx)

\* The divisor is one too large.
FinalMean_OffByOne(total, n) == TruncDiv(total, n + 1)

\* totalElapsed / runs and its siblings (132, 135, 136); n is not 0.
FinalMean(total, n) == TruncDiv(total, n)

\* The loop of lines 117-128.  minElapsed starts at math.MaxInt64 and
\* maxElapsed at math.MinInt64, values above and below every sample: the
\* accumulator is << >> until the first sample replaces it.
RECURSIVE MinElapsed(_, _)
MinElapsed(s, acc) ==
    IF s = << >> THEN acc
    ELSE MinElapsed(Tail(s),
                    IF acc = << >> \/ Head(s) < acc[1]
                    THEN << Head(s) >> ELSE acc)

RECURSIVE MaxElapsed(_, _)
MaxElapsed(s, acc) ==
    IF s = << >> THEN acc
    ELSE MaxElapsed(Tail(s),
                    IF acc = << >> \/ Head(s) > acc[1]
                    THEN << Head(s) >> ELSE acc)

\* The benchmarkResult of lines 130-143.
BuildResult(cmd, elapsed, userTotal, kernelTotal, n) ==
    LET mean == FinalMean(SumSeq(elapsed), n)
        meanUser == FinalMean(userTotal, n)
        meanKernel == FinalMean(kernelTotal, n)
        m == getMeasurementMetrics(Dur(0, mean))
        u == getMeasurementMetrics(Dur(0, meanUser))
        k == getMeasurementMetrics(Dur(0, meanKernel))
    IN  [kind |-> "result",
         cmd |-> cmd,
         mean |-> mean,
         stdev |-> stdev(elapsed, mean),
         min |-> MinElapsed(elapsed, << >>)[1],
         max |-> MaxElapsed(elapsed, << >>)[1],
         denominator |-> m.denominator, unit |-> m.unit,
         meanUserTime |-> meanUser,
         userDenominator |-> u.denominator, userUnit |-> u.unit,
         meanKernelTime |-> meanKernel,
         kernelDenominator |-> k.denominator, kernelUnit |-> k.unit]

\* One warmup execution, exec.CommandContext(...).Run() (79-84).
B_Warmup ==
    /\ bpc = "warmup" /\ i < warmup
    /\ execs' = [execs EXCEPT ![cmdIdx] = @ + 1]
    /\ \E outcome \in WarmupOutcomes :
          /\ failedExec' = [failedExec EXCEPT
                               ![cmdIdx] = @ \/ WarmupError(outcome) # Nil]
          /\ exitStatus' = CASE outcome = "exit0" -> "zero"
                              [] outcome = "exitNonZero" -> "nonzero"
                              [] OTHER -> "none"
          /\ IF Aborts(WarmupError(outcome))
             THEN /\ bpc' = "returned"
                  /\ ret' = [result |-> NoResult, err |-> WarmupError(outcome)]
                  /\ UNCHANGED i
             ELSE /\ i' = i + 1
                  /\ UNCHANGED << bpc, ret >>
    /\ UNCHANGED << currentEstimate, totalUserTime, totalKernelTime,
                    elapsedRuns, progress, measured >>
    /\ UNCHANGED << configVars, mainVars, timerVars, foldVars, unitVars >>

\* The warmup loop ends; the locals of lines 87-92 are declared.
B_WarmupDone ==
    /\ bpc = "warmup" /\ ~(i < warmup)
    /\ bpc' = "measure" /\ i' = 0
    /\ currentEstimate' = 0 /\ totalUserTime' = 0 /\ totalKernelTime' = 0
    /\ elapsedRuns' = [k \in 1..runs |-> 0]
    /\ UNCHANGED << progress, ret >>
    /\ UNCHANGED << configVars, mainVars, timerVars, ghostVars,
                    foldVars, unitVars >>

\* processTimer.Reset() and the call of processTimer.Run (96-97).
B_CallRun ==
    /\ bpc = "measure" /\ i < runs
    /\ bpc' = "inRun"
    /\ w' = ZeroTimer
    /\ tpc' = "start" /\ terr' = Nil
    /\ child' = "none" /\ job' = "none" /\ inJob' = FALSE
    /\ hProcess' = "none" /\ hThread' = "none"
    /\ exitStatus' = "none"
    /\ UNCHANGED << i, currentEstimate, totalUserTime, totalKernelTime,
                    elapsedRuns, progress, ret, execs, failedExec, measured >>
    /\ UNCHANGED << configVars, mainVars, foldVars, unitVars >>

\* processTimer.Run has returned: the rest of the loop body (97-113).
\* Run's locals (cmd, job, hProcess) are gone with its frame; the model
\* follows the child and the handles of one call at a time.
B_RunReturned ==
    /\ bpc = "inRun" /\ tpc = "returned"
    /\ tpc' = "idle"
    /\ child' = "none" /\ job' = "none" /\ inJob' = FALSE
    /\ hProcess' = "none" /\ hThread' = "none"
    /\ IF Aborts(terr)
       THEN /\ bpc' = "returned"
            /\ ret' = [result |-> NoResult, err |-> terr]
            /\ UNCHANGED << i, currentEstimate, totalUserTime,
                            totalKernelTime, elapsedRuns, progress >>
       ELSE LET estimate == UpdateRunningMean(currentEstimate, i, GetRealTime)
            IN  /\ totalUserTime' = totalUserTime + GetUserTime
                /\ totalKernelTime' = totalKernelTime + GetKernelTime
                /\ elapsedRuns' = [elapsedRuns EXCEPT ![i + 1] = GetRealTime]
                /\ currentEstimate' = estimate
                /\ progress' =
                      [kind |-> "progress",
                       completed |-> i + 1, total |-> runs,
                       estimate |-> estimate,
                       unit |-> getMeasurementMetrics(Dur(0, estimate)).unit,
                       eta |-> EtaEstimate(estimate, i)]
                /\ i' = i + 1
                /\ bpc' = "measure"
                /\ UNCHANGED ret
    /\ UNCHANGED << w, terr >>
    /\ UNCHANGED << configVars, mainVars, ghostVars, foldVars, unitVars >>

\* The measuring loop ends: aggregation and return (116-144).  With runs = 0
\* the division of line 132 panics (integer divide by zero).
B_Aggregate ==
    /\ bpc = "measure" /\ ~(i < runs)
    /\ IF runs = 0
       THEN bpc' = "panic" /\ UNCHANGED ret
       ELSE /\ bpc' = "returned"
            /\ ret' = [result |-> BuildResult(Cmds[cmdIdx], elapsedRuns,
                                              totalUserTime, totalKernelTime,
                                              runs),
                       err |-> Nil]
    /\ UNCHANGED << i, currentEstimate, totalUserTime, totalKernelTime,
                    elapsedRuns, progress >>
    /\ UNCHANGED << configVars, mainVars, timerVars, ghostVars,
                    foldVars, unitVars >>

BenchNext ==
    \/ B_Warmup
    \/ B_WarmupDone
    \/ B_CallRun
    \/ B_RunReturned
    \/ B_Aggregate

(***************************************************************************)
(* main.                                                                   *)
(***************************************************************************)
\* sort.SliceStable by mean (201): insertion after the last entry whose
\* mean is not greater.
RECURSIVE InsertByMean(_, _)
InsertByMean(sorted, r) ==
    IF sorted = << >> THEN << r >>
    ELSE IF r.mean < Head(sorted).mean
         THEN << r >> \o sorted
         ELSE << Head(sorted) >> \o InsertByMean(Tail(sorted), r)

RECURSIVE SortStableByMean(_)
SortStableByMean(rs) ==
    IF rs = << >> THEN << >>
    ELSE InsertByMean(SortStableByMean(SubSeq(rs, 1, Len(rs) - 1)),
                      rs[Len(rs)])

\* The loop body starts: runBenchmark(ctx, cmd) is called (172-174).
\* list2Cmdline always returns at least one part, so the guard of
\* lines 74-76 never fires.
M_CallBenchmark ==
    /\ mpc = "loop" /\ cmdIdx <= NumCmds
    /\ mpc' = "inBenchmark"
    /\ bpc' = "warmup" /\ i' = 0
    /\ currentEstimate' = 0 /\ totalUserTime' = 0 /\ totalKernelTime' = 0
    /\ elapsedRuns' = << >> /\ progress' = NoProgress
    /\ ret' = [result |-> NoResult, err |-> Nil]
    /\ measured' = << >>
    /\ UNCHANGED << cmdIdx, results, printed, exitStatus, execs, failedExec >>
    /\ UNCHANGED << configVars, timerVars, foldVars, unitVars >>

\* runBenchmark has returned: the error is printed, or the result is
\* printed and appended (175-195).
M_BenchmarkReturned ==
    /\ mpc = "inBenchmark" /\ bpc = "returned"
    /\ IF ret.err # Nil
       THEN /\ printed' = [printed EXCEPT ![cmdIdx] = "error"]
            /\ UNCHANGED results
       ELSE /\ printed' = [printed EXCEPT ![cmdIdx] = "result"]
            /\ results' = Append(results, ret.result)
    /\ cmdIdx' = cmdIdx + 1
    /\ mpc' = "loop" /\ bpc' = "idle"
    /\ UNCHANGED << i, currentEstimate, totalUserTime, totalKernelTime,
                    elapsedRuns, progress, ret >>
    /\ UNCHANGED << configVars, timerVars, ghostVars, foldVars, unitVars >>

\* runBenchmark panicked: the process dies.
M_Panic ==
    /\ mpc = "inBenchmark" /\ bpc = "panic"
    /\ mpc' = "crashed"
    /\ printed' = [printed EXCEPT ![cmdIdx] = "panic"]
    /\ UNCHANGED << cmdIdx, results >>
    /\ UNCHANGED << configVars, benchVars, timerVars, ghostVars,
                    foldVars, unitVars >>

\* After the loop: the summary sorts the results in place (198-217).
M_Summary ==
    /\ mpc = "loop" /\ ~(cmdIdx <= NumCmds)
    /\ mpc' = "done"
    /\ results' = IF Len(results) > 1 THEN SortStableByMean(results)
                  ELSE results
    /\ UNCHANGED << cmdIdx, printed >>
    /\ UNCHANGED << configVars, benchVars, timerVars, ghostVars,
                    foldVars, unitVars >>

MainNext ==
    \/ M_CallBenchmark
    \/ M_BenchmarkReturned
    \/ M_Panic
    \/ M_Summary

Init ==
    /\ runs \in 0..MaxRuns
    /\ warmup \in 0..MaxWarmup
    /\ InitMain /\ InitBench /\ InitTimer /\ InitGhost
    /\ InitFoldIdle /\ InitUnitIdle

Next == MainNext \/ BenchNext \/ TimerNext

Spec == Init /\ [][Next]_vars

(***************************************************************************)
(* SpecFold: the running mean of the measuring loop, sample by sample,     *)
(* and the mean of the aggregation over the same samples.                  *)
(***************************************************************************)
parkedRunner == << configVars, mainVars, benchVars, timerVars, ghostVars >>

InitParked ==
    /\ runs = 0 /\ warmup = 0
    /\ InitMain /\ InitBench /\ InitTimer /\ InitGhost

\* One pass of the loop body: the sample is stored and line 105 applied.
F_Sample ==
    /\ foldResult = << >>
    /\ Len(foldSamples) < FoldRuns
    /\ \E x \in 0..FoldSample :
          /\ foldMean' = UpdateRunningMean(foldMean, Len(foldSamples), x)
          /\ foldSamples' = Append(foldSamples, x)
    /\ UNCHANGED << foldResult, parkedRunner, unitVars >>

\* The aggregation of lines 119-132 over the samples taken.
F_Aggregate ==
    /\ foldResult = << >>
    /\ Len(foldSamples) >= 1
    /\ foldResult' = << FinalMean(SumSeq(foldSamples), Len(foldSamples)) >>
    /\ UNCHANGED << foldSamples, foldMean, parkedRunner, unitVars >>

InitFold == InitParked /\ InitFoldIdle /\ InitUnitIdle

NextFold == F_Sample \/ F_Aggregate

SpecFold == InitFold /\ [][NextFold]_vars

(***************************************************************************)
(* SpecUnit: getMeasurementMetrics on two durations taken around the       *)
(* multiples of the unit tiers (and around zero and below).                *)
(***************************************************************************)
UnitInputs ==
    { DurAdd(DurScale(denominators[j], k), delta) :
         j \in 1..Len(denominators), k \in -1..MaxMult,
         delta \in -MaxDelta..MaxDelta }

U_Select ==
    /\ Len(unitOut) < Len(unitIn)
    /\ unitOut' = Append(unitOut,
                         getMeasurementMetrics(unitIn[Len(unitOut) + 1]))
    /\ UNCHANGED << unitIn, parkedRunner, foldVars >>

InitUnit ==
    /\ InitParked /\ InitFoldIdle
    /\ unitIn \in { << a, b >> : a \in UnitInputs, b \in UnitInputs }
    /\ unitOut = << >>

NextUnit == U_Select

SpecUnit == InitUnit /\ [][NextUnit]_vars

(***************************************************************************)
(* Properties.                                                             *)
(***************************************************************************)
SeqSet(s) == { s[k] : k \in 1..Len(s) }
SetMin(S) == CHOOSE x \in S : \A y \in S : x <= y
SetMax(S) == CHOOSE x \in S : \A y \in S : x >= y
Emitted == bpc = "returned" /\ ret.err = Nil

\* C1: a child that was launched and waited on and exits with a non-zero
\* status is a valid sample: Run returns no error for it, and runBenchmark
\* does not return an error because of it.
C1_NonZeroExitIsSample ==
    /\ (tpc = "returned" /\ exitStatus = "nonzero") => terr = Nil
    /\ (bpc = "returned" /\ exitStatus = "nonzero") => ret.err = Nil

\* C2: with a run count of 0 runBenchmark executes no process, does not
\* crash, and returns a configuration error and no result.
C2_ZeroRunsIsConfigError ==
    runs = 0 =>
        /\ \A c \in 1..NumCmds : execs[c] = 0
        /\ bpc # "panic" /\ mpc # "crashed"
        /\ bpc = "returned" =>
              (ret.err = "ConfigurationError" /\ ret.result = NoResult)

\* C3: with fewer than 2 measured samples the standard deviation is not
\* computed: with runs = 1 the result has min = max = mean and its stdev
\* is left unset.
C3_NoStdevBelowTwoSamples ==
    (Emitted /\ runs < 2) =>
        /\ ret.result.min = ret.result.mean
        /\ ret.result.max = ret.result.mean
        /\ ret.result.stdev = Unset

\* C4: once an execution of a command has failed (warmup or measured), no
\* further execution of that command is started, its samples are not
\* aggregated, runBenchmark returns an error and no result, main prints the
\* error and goes on to the next command, and the results collected before
\* stay as they are; a batch that ends has benchmarked every command.
C4_Step ==
    \A c \in 1..NumCmds :
        /\ failedExec[c] => execs'[c] = execs[c]
        /\ failedExec'[c] =>
              /\ printed'[c] \in { "pending", "error" }
              /\ \A k \in 1..Len(results') : results'[k].cmd # Cmds[c]
              /\ (c = cmdIdx' /\ mpc' = "inBenchmark") =>
                    /\ ret'.result = NoResult
                    /\ \/ bpc' = "returned" /\ ret'.err # Nil
                       \/ bpc' = "inRun" /\ tpc' = "returned" /\ terr' # Nil
        /\ (failedExec[c] /\ c = cmdIdx /\ mpc = "inBenchmark") =>
              /\ results' = results
              /\ bpc = "returned" =>
                    (mpc' = "loop" /\ cmdIdx' = c + 1 /\ printed'[c] = "error")
        /\ mpc' = "done" => printed'[c] \in { "result", "error" }

C4_FailureAbortsCommandOnly == [][C4_Step]_vars

\* C4 witness: the batch has ended, the first command has its result, the
\* second failed during measurement after a sample had been taken.
C4_Witness ==
    /\ mpc = "done"
    /\ printed[1] = "result" /\ printed[NumCmds] = "error"
    /\ failedExec[NumCmds] /\ ~failedExec[1]
    /\ Len(results) = 1 /\ results[1].cmd = Cmds[1]
    /\ Len(measured) >= 1
    /\ execs[NumCmds] = 2

\* C5: every result emitted satisfies min <= mean <= max, where mean is
\* the truncating mean of exactly the runs measured samples (no warmup
\* run among them) and min and max are their extrema.
C5_MinMeanMax ==
    Emitted =>
        LET r == ret.result
        IN  /\ Len(measured) = runs /\ runs >= 1
            /\ r.min = SetMin(SeqSet(measured))
            /\ r.max = SetMax(SeqSet(measured))
            /\ r.mean * runs <= SumSeq(measured)
            /\ SumSeq(measured) < (r.mean + 1) * runs
            /\ r.min <= r.mean /\ r.mean <= r.max

\* C5 witness: a result over two different samples with warmup runs done
\* before them, the mean strictly between the extrema.
C5_Witness ==
    /\ Emitted /\ warmup >= 1 /\ runs >= 2
    /\ ret.result.min < ret.result.mean
    /\ ret.result.mean < ret.result.max

\* C6: once the job object has been created, it is terminated and its
\* handle closed when Run returns, on every path.
C6_JobTornDownOnReturn ==
    (tpc = "returned" /\ job # "none") => job = "closed"

\* C7: the estimated time remaining handed to the progress output is
\* runningMean * (runCount - completedCount), completedCount counting the
\* iteration just finished.
C7_EtaUsesCompletedCount ==
    progress.kind = "progress" =>
        progress.eta = progress.estimate * (progress.total - progress.completed)

\* C8 as stated: the folded running mean and the direct truncating mean of
\* the same samples differ by at most 1, whatever the number of samples.
C8_WithinOne ==
    foldResult # << >> => Abs(foldResult[1] - foldMean) <= 1

\* C8 amended: the folded running mean never exceeds the direct truncating
\* mean, and falls short of it by at most (n - 1) / 2 (truncated) for n
\* samples; that is at most 1 only up to 4 samples.
C8_WithinHalfCount ==
    foldResult # << >> =>
        /\ foldMean <= foldResult[1]
        /\ foldResult[1] - foldMean <= (Len(foldSamples) - 1) \div 2

\* C8 witness: five samples whose running mean is 2 below their mean.
C8_Witness ==
    /\ foldResult # << >>
    /\ Len(foldSamples) = 5
    /\ foldResult[1] - foldMean = 2

\* C9: unit selection is monotonic, a <= b never gives b a tier of smaller
\* magnitude than a (h > m > s > ms > us > ns > sentinel), and the tier
\* returned is the first from hours down whose quotient is positive.
UnitRank(u) ==
    CASE u = "h" -> 6 [] u = "m" -> 5 [] u = "s" -> 4
      [] u = "ms" -> 3 [] u = "us" -> 2 [] u = "ns" -> 1 [] OTHER -> 0

FirstPositiveTier(t, out) ==
    IF out.unit = ""
    THEN /\ out.denominator = ZeroDur
         /\ \A j \in 1..Len(denominators) : DurLess(t, denominators[j])
    ELSE \E k \in 1..Len(denominators) :
            /\ out.unit = units[k] /\ out.denominator = denominators[k]
            /\ DurLeq(denominators[k], t)
            /\ \A j \in 1..(k - 1) : DurLess(t, denominators[j])

C9_UnitMonotonic ==
    /\ \A k \in 1..Len(unitOut) : FirstPositiveTier(unitIn[k], unitOut[k])
    /\ (Len(unitOut) = 2 /\ DurLeq(unitIn[1], unitIn[2])) =>
          UnitRank(unitOut[1].unit) <= UnitRank(unitOut[2].unit)

\* C9 witness: a smaller duration in milliseconds and a larger in hours.
C9_Witness ==
    /\ Len(unitOut) = 2
    /\ DurLess(unitIn[1], unitIn[2])
    /\ unitOut[1].unit = "ms" /\ unitOut[2].unit = "h"

\* C10: whenever Run returns after the child was started, the child has
\* exited or been terminated, and the process handle opened for the job
\* assignment is closed.
C10_ChildGoneOnReturn ==
    (tpc = "returned" /\ terr # "StartErr") =>
        /\ child \in { "exited", "terminated" }
        /\ hProcess # "open"

=============================================================================
